---- MODULE Spec2Model ----
(***************************************************************************)
(* Recording lifecycle of the CareFlow mobile app: the useRecording hook   *)
(* (src/services/WorkflowService.ts:561-832), the recording screen that    *)
(* drives it (src/unnamed/part_000:377-476) and the consultation store     *)
(* (src/unnamed/part_001:108-155); then what follows a recording: the      *)
(* review screen (src/app/(doctor)/review/[consultationId].tsx), the       *)
(* transcription service (src/services/TranscriptionService.ts) and the    *)
(* reject path of the workflow approval screen                             *)
(* (src/unnamed/part_000:740-790, src/services/WorkflowService.ts:275-313),*)
(* the dashboard's initializeDemoData (src/unnamed/part_001:160-239) and a *)
(* second recording opened from the patient screen                         *)
(* (src/unnamed/part_000:1578-1582).                                       *)
(*                                                                         *)
(* React semantics kept by the model:                                      *)
(*  - a handler is a closure over the state of the render it was created   *)
(*    in; every value an async handler reads after an await is the value   *)
(*    captured when the handler was invoked, so each pending call carries  *)
(*    the captured values with it;                                         *)
(*  - the component re-renders after every synchronous segment, so a       *)
(*    handler invoked by a press captures the committed state;             *)
(*  - effects with dependencies are re-run at that render: the metering    *)
(*    interval exists exactly while its guard holds;                       *)
(*  - a state setter called after the component unmounted does nothing.    *)
(* Device model: calls to the audio device complete in the order they      *)
(* were issued (devq); a call takes effect on the device when it           *)
(* completes; a recorder that was unloaded rejects every later stop, pause *)
(* or resume and reports isRecording = false; a stop that fails on a live  *)
(* recorder still unloads it.                                              *)
(***************************************************************************)
EXTENDS Integers, Sequences, FiniteSets, TLC

\* ---------------------------------------------------------------- bounds
MaxPresses == 2
MaxTicks == 1
MaxFaults == 1
MaxSeconds == 1

\* ------------------------------------------------------ program constants
SilenceFloor == -160
MsPerSecond == 1000
NoHandle == 0
NoTime == -1
Undef == 1

ClockSteps == {500}
\* the clock readings of the pause scenario: start, pause, resume, stop
ScenarioTimes == {0, 5000, 20000, 30000}
SimulatedLevels == {-50, -35}
Handles == {1, 2}
Platforms == {"web", "native"}
ReportedLevels == {SilenceFloor, -20, Undef}

\* a text that is absent or empty (undefined and '' are both falsy)
NoText == ""

\* the text the speech backend returns, the text the formatting backend
\* returns or the doctor types, and what transcribeAudio returns for an
\* empty one
Transcripts == {"raw"}
Notes == {"note"}
NoTranscription == "No transcription available"

\* how a backend call fails: fetch rejects, the response is not OK, its body
\* does not parse
Failures == {"network", "notOk", "badJson"}

\* strings typed into the rejection prompt, as sequences of characters
PromptTexts == {<<>>, <<" ">>, <<" ", " ">>, <<"x">>, <<" ", "x">>,
                <<"x", " ">>}

CallNames == {"alert", "onError", "onSuccess", "onCancel", "back", "replace",
              "push", "perm", "mode", "create", "unloadStart", "unloadStop",
              "unloadCancel", "unloadCleanup", "pause", "resume", "status",
              "save", "stop", "stopNoop", "stopCatch"}

VARIABLES
  platform,        \* Platform.OS
  mounted,         \* the RecordingScreen instance is alive
  mountRuns,       \* how many times the mount effect has run
  recording,       \* useState: Audio.Recording | null
  isRecording,     \* useState
  isPaused,        \* useState
  startTime,       \* useState: Date | null (ms)
  metering,        \* useState
  isMounted,       \* useState
  isInitializing,  \* useState
  dev,             \* device: status of every recorder ever created
  devq,            \* device calls in flight, oldest first
  storeq,          \* saveConsultation calls in flight
  store,           \* AsyncStorage[CONSULTATIONS_KEY]
  now,             \* wall clock (ms)
  faults,          \* collaborator failures injected so far
  presses,         \* button presses so far
  pressLimit,      \* button presses the run explores
  ticks,           \* interval ticks so far
  calls,           \* how often each collaborator / callback was invoked
  hist,            \* history of the session, read by the properties only
  review,          \* ReviewScreen and the store call it has in flight
  note,            \* one run of processAudioToMedicalNote
  approval,        \* WorkflowApprovalScreen: the reject path
  appointments,    \* AsyncStorage[APPOINTMENTS_KEY]: the day of its entries
  demo             \* initializeDemoData: the storage call it has in flight

\* the dashboard's data
dashVars == <<appointments, demo>>

\* the state outside the recording session
flowVars == <<review, note, approval, dashVars>>

vars == <<platform, mounted, mountRuns, recording, isRecording, isPaused,
          startTime, metering, isMounted, isInitializing, dev, devq, storeq,
          store, now, faults, presses, pressLimit, ticks, calls, hist,
          flowVars>>

\* ---------------------------------------------------------------- helpers
Bump(c, names) == [n \in CallNames |-> IF n \in names THEN c[n] + 1 ELSE c[n]]

Live(h) == h # NoHandle /\ dev[h] \in {"recording", "paused"}

LiveHandles == {h \in Handles : Live(h)}

Call(op, h, st, run) == [op |-> op, h |-> h, st |-> st, run |-> run]

InFlight(ops) == \E i \in 1..Len(devq) : devq[i].op \in ops

Quiescent == devq = <<>> /\ storeq = {}

\* a collaborator call either succeeds or, within the fault budget, fails
Outcomes == IF faults < MaxFaults THEN {TRUE, FALSE} ELSE {TRUE}

Spend(ok) == faults' = IF ok THEN faults ELSE faults + 1

\* a duration that leaves out the time between the last pause and the resume
\* that followed it
DurationActive(st, t) ==
  LET paused == IF hist.pausedAt # NoTime /\ hist.resumedAt >= hist.pausedAt
                THEN hist.resumedAt - hist.pausedAt ELSE 0
  IN IF st # NoTime THEN (t - st - paused) \div MsPerSecond ELSE 0

\* Math.floor((new Date().getTime() - startTime.getTime()) / 1000), 0 if null
Duration(st, t) == IF st # NoTime THEN (t - st) \div MsPerSecond ELSE 0

\* a record whose id is the clock's reading in whole seconds
ConsultationIdInSeconds(h, st, t) ==
  [id |-> t \div MsPerSecond, audioUri |-> h, duration |-> Duration(st, t),
   startedAt |-> IF st # NoTime THEN st ELSE t, status |-> "processing",
   transcription |-> NoText, formattedNote |-> NoText, completedAt |-> NoTime]

\* the record stopRecording builds: no transcription, no note, not completed
Consultation(h, st, t) ==
  [id |-> t, audioUri |-> h, duration |-> Duration(st, t),
   startedAt |-> IF st # NoTime THEN st ELSE t, status |-> "processing",
   transcription |-> NoText, formattedNote |-> NoText, completedAt |-> NoTime]

\* a backend response: a failure, or OK with the text of its body (data.text,
\* data.formattedText), which may be missing
Responses(texts) ==
  {[kind |-> k, text |-> NoText] : k \in Failures}
  \cup {[kind |-> "ok", text |-> t] : t \in texts \cup {NoText}}

NoResponse == [kind |-> "ok", text |-> NoText]

\* ReviewScreen: stage is where its handler in flight stands ("ready" and
\* "saved": none is in flight), loaded is consultation !== null
ReviewClosed ==
  [stage |-> "closed", flow |-> "none", id |-> NoTime, loaded |-> FALSE,
   isLoading |-> FALSE, isProcessing |-> FALSE, isSaving |-> FALSE,
   editedNote |-> NoText, transcription |-> NoText, formattedNote |-> NoText,
   savedAt |-> NoTime, snap |-> <<>>,
   appointment |-> "pending", workflow |-> "none", left |-> FALSE]

NoteIdle ==
  [stage |-> "idle", speechKey |-> TRUE, formatKey |-> TRUE,
   whisper |-> NoResponse, format |-> NoResponse, transcription |-> NoText,
   formattedNote |-> NoText]

\* WorkflowApprovalScreen: the answer to the last prompt, the notes of the
\* reject requests in flight and of all reject requests sent
ApprovalIdle ==
  [isRejecting |-> FALSE, given |-> FALSE, answer |-> <<>>,
   inflight |-> <<>>, sent |-> <<>>, alerts |-> 0, toasts |-> 0]

\* the guard of the metering effect: the 100 ms interval exists while it holds
IntervalActive ==
  mounted /\ recording # NoHandle /\ isRecording /\ ~isPaused /\ isMounted

\* the three buttons are rendered with disabled={isInitializing}
ButtonsEnabled ==
  mounted /\ mountRuns >= 1 /\ ~isInitializing /\ presses < pressLimit

\* the session has left Recording: paused, or a stop / cancel was requested
\* (cancelRecording sets isMounted false), or the screen is gone
LeftRecording ==
  isPaused \/ hist.stopRequested \/ hist.cancelRequested \/ ~isMounted
  \/ ~mounted

\* the state the last pause/resume request in flight will leave, else isPaused
EffectivePaused ==
  LET idx == {i \in 1..Len(devq) : devq[i].op \in {"pause", "resume"}}
  IN IF idx = {} THEN isPaused
     ELSE devq[CHOOSE i \in idx : \A j \in idx : j <= i].op = "pause"

\* the state of the session in the terms of the state table of the design
SessionState ==
  IF ~mounted \/ hist.cancelRequested THEN "Cancelled"
  ELSE IF calls["alert"] > 0 THEN "Failed"
  ELSE IF store # <<>> THEN "Committed"
  ELSE IF hist.stopRequested THEN "Stopping"
  ELSE IF mountRuns = 0 THEN "Idle"
  ELSE IF recording = NoHandle THEN "Initializing"
  ELSE IF isPaused THEN "Paused"
  ELSE "Recording"

\* the recording screen has just been pushed, nothing has run yet
InitSession ==
  /\ platform \in Platforms
  /\ mounted = TRUE
  /\ mountRuns = 0
  /\ recording = NoHandle
  /\ isRecording = FALSE
  /\ isPaused = FALSE
  /\ startTime = NoTime
  /\ metering = SilenceFloor
  /\ isMounted = TRUE
  /\ isInitializing = FALSE
  /\ dev = [h \in Handles |-> "none"]
  /\ devq = <<>>
  /\ storeq = {}
  /\ store = <<>>
  /\ now = 0
  /\ faults = 0
  /\ presses = 0
  /\ ticks = 0
  /\ calls = [n \in CallNames |-> 0]
  /\ hist = [stopRequested |-> FALSE, cancelRequested |-> FALSE,
             lateSample |-> FALSE, lastReq |-> "none", redundantDev |-> 0,
             devErr |-> FALSE, opsAfterErr |-> 0, denied |-> FALSE,
             dupCreates |-> 0, cancelPrior |-> "none",
             pausedAt |-> NoTime, resumedAt |-> NoTime,
             stoppedAt |-> NoTime,
             saveFailed |-> FALSE, devAfterSaveFail |-> 0,
             acqFailed |-> FALSE, stopsFailed |-> 0,
             rejected |-> 0,
             misdelivered |-> FALSE, floorDelivered |-> FALSE]

\* no review screen, no transcription run and no approval screen is open
DashIdle ==
  /\ appointments = "today"
  /\ demo = "idle"

InitFlowIdle ==
  /\ review = ReviewClosed
  /\ note = NoteIdle
  /\ approval = ApprovalIdle
  /\ DashIdle

Init ==
  /\ InitSession
  /\ pressLimit = MaxPresses
  /\ InitFlowIdle

\* ------------------------------------------------------------ startRecording
\* startRecording as invoked from a render whose closure holds isInitializing
\* = init and recording = rec; run numbers the invocation
StartRecording(init, rec, run) ==
  IF init
  THEN UNCHANGED <<isInitializing, devq, calls>>
  ELSE /\ isInitializing' = TRUE
       /\ IF rec # NoHandle
          THEN /\ devq' = Append(devq, Call("unloadStart", rec, NoTime, run))
               /\ calls' = Bump(calls, {"unloadStart"})
          ELSE /\ devq' = Append(devq, Call("perm", NoHandle, NoTime, run))
               /\ calls' = Bump(calls, {"perm"})

\* mount effect, first run: the closure is the first render's
MountEffect ==
  /\ mounted /\ mountRuns = 0
  /\ mountRuns' = 1
  /\ StartRecording(isInitializing, recording, 1)
  /\ UNCHANGED <<platform, pressLimit, mounted, recording, isRecording,
                 isPaused, startTime, metering, isMounted, dev, storeq, store,
                 now, faults, presses, ticks, hist, flowVars>>

\* the catch of startRecording without its finally block
StartCatchNoFinally ==
  /\ calls' = Bump(calls, {"alert", "onError", "back"})
  /\ UNCHANGED isInitializing

\* catch + finally of startRecording
StartCatch ==
  /\ calls' = Bump(calls, {"alert", "onError", "back"})
  /\ isInitializing' = IF mounted THEN FALSE ELSE isInitializing

\* startRecording with the return of the permission-denied branch missing:
\* after the alert and router.back() it goes on to setAudioModeAsync
StartPermDoneNoReturn ==
  /\ devq # <<>> /\ Head(devq).op \in {"unloadStart", "perm"}
  /\ LET c == Head(devq) IN
     /\ c.op = "perm"
     /\ \E granted \in BOOLEAN :
          /\ devq' = Append(Tail(devq), Call("mode", NoHandle, NoTime, c.run))
          /\ calls' = IF granted THEN Bump(calls, {"mode"})
                      ELSE Bump(calls, {"alert", "back", "mode"})
          /\ hist' = [hist EXCEPT !.denied = @ \/ ~granted]
     /\ UNCHANGED <<dev, recording, isInitializing>>
  /\ UNCHANGED <<platform, pressLimit, mounted, mountRuns, isRecording,
                 isPaused, startTime, metering, isMounted, storeq, store, now,
                 faults, presses, ticks, flowVars>>

\* the awaits before setAudioModeAsync: release of a pre-existing recording,
\* then the permission request
StartPermDone ==
  /\ devq # <<>> /\ Head(devq).op \in {"unloadStart", "perm"}
  /\ LET c == Head(devq) IN
     IF c.op = "unloadStart"
     THEN /\ dev' = [dev EXCEPT ![c.h] = "unloaded"]
          /\ recording' = IF mounted THEN NoHandle ELSE recording
          /\ devq' = Append(Tail(devq), Call("perm", NoHandle, NoTime, c.run))
          /\ calls' = Bump(calls, {"perm"})
          /\ UNCHANGED <<isInitializing, hist>>
     ELSE /\ \E granted \in BOOLEAN :
               IF granted
               THEN /\ devq' = Append(Tail(devq),
                                      Call("mode", NoHandle, NoTime, c.run))
                    /\ calls' = Bump(calls, {"mode"})
                    /\ UNCHANGED <<isInitializing, hist>>
               ELSE /\ devq' = Tail(devq)
                    /\ calls' = Bump(calls, {"alert", "back"})
                    /\ isInitializing' = IF mounted THEN FALSE
                                         ELSE isInitializing
                    /\ hist' = [hist EXCEPT !.denied = TRUE]
          /\ UNCHANGED <<dev, recording>>
  /\ UNCHANGED <<platform, pressLimit, mounted, mountRuns, isRecording,
                 isPaused, startTime, metering, isMounted, storeq, store, now,
                 faults, presses, ticks, flowVars>>

StartModeDone ==
  /\ devq # <<>> /\ Head(devq).op = "mode"
  /\ LET c == Head(devq) IN
     \E ok \in Outcomes :
       /\ Spend(ok)
       /\ IF ok
          THEN /\ devq' = Append(Tail(devq),
                                 Call("create", NoHandle, NoTime, c.run))
               /\ calls' = Bump(calls, {"create"})
               /\ hist' = [hist EXCEPT !.dupCreates =
                             IF c.run > 1 THEN @ + 1 ELSE @]
               /\ UNCHANGED isInitializing
          ELSE /\ devq' = Tail(devq)
               /\ StartCatch
               /\ hist' = [hist EXCEPT !.devErr = TRUE, !.acqFailed = TRUE]
  /\ UNCHANGED <<platform, pressLimit, mounted, mountRuns, recording,
                 isRecording, isPaused, startTime, metering, isMounted, dev,
                 storeq, store, now, presses, ticks, flowVars>>

\* Audio.Recording.createAsync resolved: setRecording, setIsRecording,
\* setStartTime; the render that follows runs the cleanup of the [recording]
\* effect for the recording it replaces
StartCreateDone ==
  /\ devq # <<>> /\ Head(devq).op = "create"
  /\ \E ok \in Outcomes :
       /\ Spend(ok)
       /\ IF ok
          THEN LET h == CHOOSE x \in Handles :
                          dev[x] = "none" /\ \A y \in Handles :
                                               dev[y] = "none" => x <= y
               IN /\ dev' = [dev EXCEPT ![h] = "recording"]
                  /\ IF mounted
                     THEN /\ recording' = h
                          /\ isRecording' = TRUE
                          /\ startTime' = now
                          /\ isInitializing' = FALSE
                          /\ IF recording # NoHandle
                             THEN /\ devq' = Append(Tail(devq),
                                        Call("unloadCleanup", recording,
                                             NoTime, 0))
                                  /\ calls' = Bump(calls, {"unloadCleanup"})
                             ELSE /\ devq' = Tail(devq)
                                  /\ UNCHANGED calls
                     ELSE /\ devq' = Tail(devq)
                          /\ UNCHANGED <<recording, isRecording, startTime,
                                         isInitializing, calls>>
                  /\ UNCHANGED hist
          ELSE /\ devq' = Tail(devq)
               /\ StartCatch
               /\ hist' = [hist EXCEPT !.devErr = TRUE, !.acqFailed = TRUE]
               /\ UNCHANGED <<dev, recording, isRecording, startTime>>
  /\ UNCHANGED <<platform, pressLimit, mounted, mountRuns, isPaused, metering,
                 isMounted, storeq, store, now, presses, ticks, flowVars>>

\* ------------------------------------------------------------- stopRecording
\* stop button -> stopRecording, up to its first await
PressStop ==
  /\ ButtonsEnabled
  /\ presses' = presses + 1
  /\ IF recording = NoHandle
     THEN /\ calls' = Bump(calls, {"stopNoop"})
          /\ UNCHANGED <<devq, hist>>
     ELSE /\ devq' = Append(devq, Call("unloadStop", recording, startTime, 0))
          /\ calls' = Bump(calls, {"stop", "unloadStop"})
          /\ hist' = [hist EXCEPT
                        !.stopRequested = TRUE,
                        !.opsAfterErr = IF hist.devErr THEN @ + 1 ELSE @,
                        !.devAfterSaveFail =
                           IF hist.saveFailed THEN @ + 1 ELSE @]
  /\ UNCHANGED <<platform, pressLimit, mounted, mountRuns, recording,
                 isRecording, isPaused, startTime, metering, isMounted,
                 isInitializing, dev, storeq, store, now, faults, ticks,
                 flowVars>>

\* catch of stopRecording
StopCatch == calls' = Bump(calls, {"alert", "onError", "stopCatch"})

\* stopRecording without its test of the URI: a stop that yields no URI goes
\* on to saveConsultation with an empty audioUri
StopUnloadDoneKeepsEmptyUri ==
  /\ devq # <<>> /\ Head(devq).op = "unloadStop"
  /\ LET c == Head(devq) IN
     /\ devq' = Tail(devq)
     /\ dev' = [dev EXCEPT ![c.h] = "unloaded"]
     /\ IF Live(c.h)
        THEN \E ok \in Outcomes, uri \in BOOLEAN :
               /\ Spend(ok)
               /\ ok => uri
               /\ IF ok \/ ~uri
                  THEN /\ storeq' = storeq \cup
                            {[c |-> Consultation(IF uri THEN c.h
                                                 ELSE NoHandle, c.st, now),
                              phase |-> "get", snap |-> <<>>]}
                       /\ calls' = Bump(calls, {"save"})
                       /\ hist' = [hist EXCEPT
                                     !.stoppedAt = now,
                                     !.stopsFailed = IF uri THEN @
                                                     ELSE @ + 1]
                  ELSE /\ StopCatch
                       /\ hist' = [hist EXCEPT !.devErr = TRUE,
                                                !.stopsFailed = @ + 1]
                       /\ UNCHANGED storeq
        ELSE /\ StopCatch
             /\ hist' = [hist EXCEPT !.stopsFailed = @ + 1,
                                      !.rejected = @ + 1]
             /\ UNCHANGED <<storeq, faults>>
  /\ UNCHANGED <<platform, pressLimit, mounted, mountRuns, recording,
                 isRecording, isPaused, startTime, metering, isMounted,
                 isInitializing, store, now, presses, ticks, flowVars>>

\* recording.stopAndUnloadAsync() of stopRecording settled: getURI, duration,
\* consultation record, saveConsultation up to its first await. The stop
\* fails when the device call rejects (uri) or when getURI returns nothing
\* (~uri); a recorder that was unloaded before rejects the call
StopUnloadDone ==
  /\ devq # <<>> /\ Head(devq).op = "unloadStop"
  /\ LET c == Head(devq) IN
     /\ devq' = Tail(devq)
     /\ dev' = [dev EXCEPT ![c.h] = "unloaded"]
     /\ IF Live(c.h)
        THEN \E ok \in Outcomes, uri \in BOOLEAN :
               /\ Spend(ok)
               /\ ok => uri
               /\ IF ok
                  THEN /\ storeq' = storeq \cup
                            {[c |-> Consultation(c.h, c.st, now),
                              phase |-> "get", snap |-> <<>>]}
                       /\ calls' = Bump(calls, {"save"})
                       /\ hist' = [hist EXCEPT !.stoppedAt = now]
                  ELSE /\ StopCatch
                       /\ hist' = [hist EXCEPT !.devErr = uri \/ @,
                                                !.stopsFailed = @ + 1]
                       /\ UNCHANGED storeq
        ELSE /\ StopCatch
             /\ hist' = [hist EXCEPT !.stopsFailed = @ + 1,
                                      !.rejected = @ + 1]
             /\ UNCHANGED <<storeq, faults>>
  /\ UNCHANGED <<platform, pressLimit, mounted, mountRuns, recording,
                 isRecording, isPaused, startTime, metering, isMounted,
                 isInitializing, store, now, presses, ticks, flowVars>>

\* saveConsultation: AsyncStorage.getItem settled
SaveGetDone ==
  \E s \in storeq :
    /\ s.phase = "get"
    /\ \E ok \in Outcomes :
         /\ Spend(ok)
         /\ IF ok
            THEN /\ storeq' = (storeq \ {s}) \cup
                               {[s EXCEPT !.phase = "set", !.snap = store]}
                 /\ UNCHANGED calls
            ELSE /\ storeq' = storeq \ {s}
                 /\ StopCatch
         /\ hist' = [hist EXCEPT !.saveFailed = @ \/ ~ok]
    /\ UNCHANGED <<platform, pressLimit, mounted, mountRuns, recording,
                   isRecording, isPaused, startTime, metering, isMounted,
                   isInitializing, dev, devq, store, now, presses, ticks,
                   flowVars>>

\* saveConsultation logging a failed write without rethrowing it: stopRecording
\* goes on to onSuccess and router.replace
SaveSetDoneSwallowsError ==
  \E s \in storeq :
    /\ s.phase = "set"
    /\ storeq' = storeq \ {s}
    /\ \E ok \in Outcomes :
         /\ Spend(ok)
         /\ store' = IF ok THEN Append(s.snap, s.c) ELSE store
         /\ calls' = Bump(calls, {"onSuccess", "replace"})
         /\ hist' = [hist EXCEPT !.saveFailed = @ \/ ~ok]
    /\ UNCHANGED <<platform, pressLimit, mounted, mountRuns, recording,
                   isRecording, isPaused, startTime, metering, isMounted,
                   isInitializing, dev, devq, now, presses, ticks, flowVars>>

\* saveConsultation: AsyncStorage.setItem settled; then onSuccess and
\* router.replace
SaveSetDone ==
  \E s \in storeq :
    /\ s.phase = "set"
    /\ storeq' = storeq \ {s}
    /\ \E ok \in Outcomes :
         /\ Spend(ok)
         /\ IF ok
            THEN /\ store' = Append(s.snap, s.c)
                 /\ calls' = Bump(calls, {"onSuccess", "replace"})
            ELSE /\ StopCatch
                 /\ UNCHANGED store
         /\ hist' = [hist EXCEPT !.saveFailed = @ \/ ~ok]
    /\ UNCHANGED <<platform, pressLimit, mounted, mountRuns, recording,
                   isRecording, isPaused, startTime, metering, isMounted,
                   isInitializing, dev, devq, now, presses, ticks, flowVars>>

\* --------------------------------------------------------------- pauseResume
\* pause/resume button -> pauseResume, up to its await
PressPauseResume ==
  /\ ButtonsEnabled
  /\ presses' = presses + 1
  /\ IF recording = NoHandle
     THEN UNCHANGED <<devq, calls, hist>>
     ELSE LET op == IF isPaused THEN "resume" ELSE "pause" IN
          /\ devq' = Append(devq, Call(op, recording, NoTime, 0))
          /\ calls' = Bump(calls, {op})
          /\ hist' = [hist EXCEPT
                        !.lastReq = op,
                        !.redundantDev =
                           IF EffectivePaused = (op = "pause")
                           THEN @ + 1 ELSE @,
                        !.opsAfterErr = IF hist.devErr THEN @ + 1 ELSE @]
  /\ UNCHANGED <<platform, pressLimit, mounted, mountRuns, recording,
                 isRecording, isPaused, startTime, metering, isMounted,
                 isInitializing, dev, storeq, store, now, faults, ticks,
                 flowVars>>

\* catch of pauseResume
PauseResumeCatch == calls' = Bump(calls, {"alert", "onError"})

\* recording.pauseAsync() settled
PauseDone ==
  /\ devq # <<>> /\ Head(devq).op = "pause"
  /\ LET c == Head(devq) IN
     /\ devq' = Tail(devq)
     /\ IF Live(c.h)
        THEN \E ok \in Outcomes :
               /\ Spend(ok)
               /\ IF ok
                  THEN /\ dev' = [dev EXCEPT ![c.h] = "paused"]
                       /\ isPaused' = IF mounted THEN TRUE ELSE isPaused
                       /\ metering' = IF mounted THEN SilenceFloor
                                      ELSE metering
                       /\ hist' = [hist EXCEPT !.pausedAt = now]
                       /\ UNCHANGED calls
                  ELSE /\ PauseResumeCatch
                       /\ hist' = [hist EXCEPT !.devErr = TRUE]
                       /\ UNCHANGED <<dev, isPaused, metering>>
        ELSE /\ PauseResumeCatch
             /\ hist' = [hist EXCEPT !.rejected = @ + 1]
             /\ UNCHANGED <<dev, isPaused, metering, faults>>
  /\ UNCHANGED <<platform, pressLimit, mounted, mountRuns, recording,
                 isRecording, startTime, isMounted, isInitializing, storeq,
                 store, now, presses, ticks, flowVars>>

\* pauseResume restarting the session's clock when it resumes
ResumeDoneRestartsClock ==
  /\ devq # <<>> /\ Head(devq).op = "resume"
  /\ LET c == Head(devq) IN
     /\ devq' = Tail(devq)
     /\ IF Live(c.h)
        THEN \E ok \in Outcomes :
               /\ Spend(ok)
               /\ IF ok
                  THEN /\ dev' = [dev EXCEPT ![c.h] = "recording"]
                       /\ isPaused' = IF mounted THEN FALSE ELSE isPaused
                       /\ startTime' = IF mounted THEN now ELSE startTime
                       /\ hist' = [hist EXCEPT !.resumedAt = now]
                       /\ UNCHANGED calls
                  ELSE /\ PauseResumeCatch
                       /\ hist' = [hist EXCEPT !.devErr = TRUE]
                       /\ UNCHANGED <<dev, isPaused, startTime>>
        ELSE /\ PauseResumeCatch
             /\ hist' = [hist EXCEPT !.rejected = @ + 1]
             /\ UNCHANGED <<dev, isPaused, startTime, faults>>
  /\ UNCHANGED <<platform, pressLimit, mounted, mountRuns, recording,
                 isRecording, metering, isMounted, isInitializing, storeq,
                 store, now, presses, ticks, flowVars>>

\* recording.startAsync() settled
ResumeDone ==
  /\ devq # <<>> /\ Head(devq).op = "resume"
  /\ LET c == Head(devq) IN
     /\ devq' = Tail(devq)
     /\ IF Live(c.h)
        THEN \E ok \in Outcomes :
               /\ Spend(ok)
               /\ IF ok
                  THEN /\ dev' = [dev EXCEPT ![c.h] = "recording"]
                       /\ isPaused' = IF mounted THEN FALSE ELSE isPaused
                       /\ hist' = [hist EXCEPT !.resumedAt = now]
                       /\ UNCHANGED calls
                  ELSE /\ PauseResumeCatch
                       /\ hist' = [hist EXCEPT !.devErr = TRUE]
                       /\ UNCHANGED <<dev, isPaused>>
        ELSE /\ PauseResumeCatch
             /\ hist' = [hist EXCEPT !.rejected = @ + 1]
             /\ UNCHANGED <<dev, isPaused, faults>>
  /\ UNCHANGED <<platform, pressLimit, mounted, mountRuns, recording,
                 isRecording, startTime, metering, isMounted, isInitializing,
                 storeq, store, now, presses, ticks, flowVars>>

\* --------------------------------------------------- cancel / cancelRecording
\* cancel button, confirmed: cancelRecording up to its await, or to its end
\* when no recording is held
CancelConfirmed ==
  /\ ButtonsEnabled
  /\ presses' = presses + 1
  /\ isMounted' = FALSE
  /\ hist' = [hist EXCEPT !.cancelRequested = TRUE,
                           !.cancelPrior = IF @ = "none" THEN SessionState
                                           ELSE @]
  /\ IF recording # NoHandle
     THEN /\ devq' = Append(devq, Call("unloadCancel", recording, NoTime, 0))
          /\ calls' = Bump(calls, {"unloadCancel"})
     ELSE /\ calls' = Bump(calls, {"onCancel", "push"})
          /\ UNCHANGED devq
  /\ UNCHANGED <<platform, pressLimit, mounted, mountRuns, recording,
                 isRecording, isPaused, startTime, metering, isInitializing,
                 dev, storeq, store, now, faults, ticks, flowVars>>

\* a rejection that is caught and written to the console only
LoggedOnly(h) ==
  hist' = [hist EXCEPT !.rejected = IF Live(h) THEN @ ELSE @ + 1]

\* recording.stopAndUnloadAsync() of cancelRecording settled (a rejection is
\* caught and logged); then onCancel and router.push
CancelUnloadDone ==
  /\ devq # <<>> /\ Head(devq).op = "unloadCancel"
  /\ devq' = Tail(devq)
  /\ dev' = [dev EXCEPT ![Head(devq).h] = "unloaded"]
  /\ LoggedOnly(Head(devq).h)
  /\ calls' = Bump(calls, {"onCancel", "push"})
  /\ UNCHANGED <<platform, pressLimit, mounted, mountRuns, recording,
                 isRecording, isPaused, startTime, metering, isMounted,
                 isInitializing, storeq, store, now, faults, presses, ticks,
                 flowVars>>

\* ------------------------------------------------------------------- unmount
\* the screen leaves the stack (router.back, router.replace, hardware back):
\* effect cleanups run with the last render's closure
Unmount ==
  /\ mounted /\ mountRuns >= 1
  /\ mounted' = FALSE
  /\ IF recording # NoHandle
     THEN /\ devq' = Append(devq, Call("unloadCleanup", recording, NoTime, 0))
          /\ calls' = Bump(calls, {"unloadCleanup"})
     ELSE UNCHANGED <<devq, calls>>
  /\ UNCHANGED <<platform, pressLimit, mountRuns, recording, isRecording,
                 isPaused, startTime, metering, isMounted, isInitializing,
                 dev, storeq, store, now, faults, presses, ticks, hist,
                 flowVars>>

\* recording.stopAndUnloadAsync() of the cleanup settled (rejection logged)
CleanupUnloadDone ==
  /\ devq # <<>> /\ Head(devq).op = "unloadCleanup"
  /\ devq' = Tail(devq)
  /\ dev' = [dev EXCEPT ![Head(devq).h] = "unloaded"]
  /\ LoggedOnly(Head(devq).h)
  /\ UNCHANGED <<platform, pressLimit, mounted, mountRuns, recording,
                 isRecording, isPaused, startTime, metering, isMounted,
                 isInitializing, storeq, store, now, faults, presses, ticks,
                 calls, flowVars>>

\* ------------------------------------------------------------------ metering
\* the 100 ms interval fires: the callback runs up to getStatusAsync
IntervalTick ==
  /\ IntervalActive /\ ticks < MaxTicks
  /\ ticks' = ticks + 1
  /\ devq' = Append(devq, Call("status", recording, NoTime, 0))
  /\ calls' = Bump(calls, {"status"})
  /\ UNCHANGED <<platform, pressLimit, mounted, mountRuns, recording,
                 isRecording, isPaused, startTime, metering, isMounted,
                 isInitializing, dev, storeq, store, now, faults, presses,
                 hist, flowVars>>

\* setMetering(level) from the interval callback, whose closure holds
\* isMounted = true; reported is status.metering
Deliver(level, reported) ==
  /\ metering' = IF mounted THEN level ELSE metering
  /\ hist' = [hist EXCEPT
                !.lateSample = @ \/ (mounted /\ LeftRecording),
                !.misdelivered = \/ @
                                 \/ reported # Undef /\ level # reported
                                 \/ level \in SimulatedLevels
                                      /\ platform # "web",
                !.floorDelivered = @ \/ (reported = SilenceFloor
                                         /\ level = SilenceFloor)]

\* the interval callback without its platform test: the level is simulated
\* on every platform
StatusDoneAlwaysSimulated ==
  /\ devq # <<>> /\ Head(devq).op = "status"
  /\ LET c == Head(devq) IN
     /\ devq' = Tail(devq)
     /\ \E ok \in Outcomes, level \in ReportedLevels :
          /\ Spend(ok)
          /\ IF ~ok
             THEN level = Undef /\ UNCHANGED <<metering, hist>>
             ELSE /\ (platform = "web" \/ dev[c.h] # "recording")
                       => level = Undef
                  /\ \E sim \in SimulatedLevels : Deliver(sim, level)
  /\ UNCHANGED <<platform, pressLimit, mounted, mountRuns, recording,
                 isRecording, isPaused, startTime, isMounted, isInitializing,
                 dev, storeq, store, now, presses, ticks, calls, flowVars>>

\* recording.getStatusAsync() settled; level is status.metering, which the
\* web recorder never reports and a recorder that is not recording does not
\* report either
StatusDone ==
  /\ devq # <<>> /\ Head(devq).op = "status"
  /\ LET c == Head(devq) IN
     /\ devq' = Tail(devq)
     /\ \E ok \in Outcomes, level \in ReportedLevels :
          /\ Spend(ok)
          /\ IF ~ok
             THEN level = Undef /\ UNCHANGED <<metering, hist>>
             ELSE IF platform = "web"
                  THEN /\ level = Undef
                       /\ \E sim \in SimulatedLevels : Deliver(sim, level)
                  ELSE IF dev[c.h] = "recording" /\ level # Undef
                       THEN Deliver(level, level)
                       ELSE level = Undef /\ UNCHANGED <<metering, hist>>
  /\ UNCHANGED <<platform, pressLimit, mounted, mountRuns, recording,
                 isRecording, isPaused, startTime, isMounted, isInitializing,
                 dev, storeq, store, now, presses, ticks, calls, flowVars>>

\* --------------------------------------------------------------------- clock
ClockTick ==
  /\ \E d \in ClockSteps : now + d <= MaxSeconds * MsPerSecond /\ now' = now + d
  /\ UNCHANGED <<platform, pressLimit, mounted, mountRuns, recording,
                 isRecording, isPaused, startTime, metering, isMounted,
                 isInitializing, dev, devq, storeq, store, faults, presses,
                 ticks, calls, hist, flowVars>>

Next ==
  \/ MountEffect
  \/ StartPermDone
  \/ StartModeDone
  \/ StartCreateDone
  \/ PressStop
  \/ StopUnloadDone
  \/ SaveGetDone
  \/ SaveSetDone
  \/ PressPauseResume
  \/ PauseDone
  \/ ResumeDone
  \/ CancelConfirmed
  \/ CancelUnloadDone
  \/ Unmount
  \/ CleanupUnloadDone
  \/ IntervalTick
  \/ StatusDone
  \/ ClockTick

Spec == Init /\ [][Next]_vars

\* ------------------------------------------------ the pause scenario's clock
\* the wall clock moves on to the next reading of the scenario
ClockJump ==
  /\ \E t \in ScenarioTimes :
       /\ t > now
       /\ \A u \in ScenarioTimes : u > now => t <= u
       /\ now' = t
  /\ UNCHANGED <<platform, pressLimit, mounted, mountRuns, recording,
                 isRecording, isPaused, startTime, metering, isMounted,
                 isInitializing, dev, devq, storeq, store, faults, presses,
                 ticks, calls, hist, flowVars>>

\* a session with one press more (pause, resume, stop), on the scenario's
\* clock
InitWall ==
  /\ InitSession
  /\ pressLimit = MaxPresses + 1
  /\ InitFlowIdle

NextWall ==
  \/ MountEffect
  \/ StartPermDone
  \/ StartModeDone
  \/ StartCreateDone
  \/ PressStop
  \/ StopUnloadDone
  \/ SaveGetDone
  \/ SaveSetDone
  \/ PressPauseResume
  \/ PauseDone
  \/ ResumeDone
  \/ CancelConfirmed
  \/ CancelUnloadDone
  \/ Unmount
  \/ CleanupUnloadDone
  \/ ClockJump

SpecWall == InitWall /\ [][NextWall]_vars

\* ------------------------------------------------- duplicate mount-time start
\* React StrictMode (development): right after the first run of the mount
\* effect its cleanup runs (setIsMounted(false)) and the effect runs again,
\* with the closure of the same first render: isInitializing = false and
\* recording = null, whatever the first run has set since
StrictRemount ==
  /\ mounted /\ mountRuns = 1
  /\ devq = <<Call("perm", NoHandle, NoTime, 1)>>
  /\ mountRuns' = 2
  /\ isMounted' = FALSE
  /\ StartRecording(FALSE, NoHandle, 2)
  /\ UNCHANGED <<platform, pressLimit, mounted, recording, isRecording,
                 isPaused, startTime, metering, dev, storeq, store, now,
                 faults, presses, ticks, hist, flowVars>>

NextStrict == Next \/ StrictRemount

SpecStrict == Init /\ [][NextStrict]_vars

\* ------------------------------------------------------ TranscriptionService
\* what an async function settles with: a value, or a thrown error
Returned(v) == [thrown |-> FALSE, value |-> v]

Thrown == [thrown |-> TRUE, value |-> NoText]

\* transcribeAudio: key is !!API_KEYS.SPEECH_TO_TEXT, resp the outcome of the
\* fetches; every failure is logged and rethrown
TranscribeAudio(key, resp) ==
  IF ~key \/ resp.kind # "ok"
  THEN Thrown
  ELSE Returned(IF resp.text # NoText THEN resp.text ELSE NoTranscription)

\* formatMedicalNote answering a failure with an empty note
FormatMedicalNoteEmptyOnFailure(text, key, resp) ==
  IF ~key \/ resp.kind # "ok" THEN NoText ELSE resp.text

\* formatMedicalNote: key is !!API_KEYS.FORMAT_MEDICAL_NOTE; every failure is
\* caught and answered with the input text
FormatMedicalNote(text, key, resp) ==
  IF ~key \/ resp.kind # "ok" THEN text ELSE resp.text

\* processAudioToMedicalNote, from call to result
ProcessAudioToMedicalNote(speechKey, formatKey, whisper, format) ==
  LET t == TranscribeAudio(speechKey, whisper) IN
  IF t.thrown
  THEN [thrown |-> TRUE, transcription |-> NoText, formattedNote |-> NoText]
  ELSE [thrown |-> FALSE, transcription |-> t.value,
        formattedNote |-> FormatMedicalNote(t.value, formatKey, format)]

\* the variables of the recording screen
sessionVars == <<platform, pressLimit, mounted, mountRuns, recording,
                 isRecording, isPaused, startTime, metering, isMounted,
                 isInitializing, dev, devq, storeq, store, now, faults,
                 presses, ticks, calls, hist>>

\* processAudioToMedicalNote has been called: the configuration and what the
\* two backends are going to answer
NoteCalls ==
  {[NoteIdle EXCEPT !.stage = "transcribing", !.speechKey = sk,
                    !.formatKey = fk, !.whisper = w, !.format = f] :
     sk \in BOOLEAN, fk \in BOOLEAN, w \in Responses(Transcripts),
     f \in Responses(Notes)}

InitNote ==
  /\ InitSession
  /\ pressLimit = MaxPresses
  /\ review = ReviewClosed
  /\ approval = ApprovalIdle
  /\ DashIdle
  /\ note \in NoteCalls

\* await transcribeAudio(audioUri) settled
NoteTranscribed ==
  /\ note.stage = "transcribing"
  /\ LET t == TranscribeAudio(note.speechKey, note.whisper) IN
     note' = IF t.thrown THEN [note EXCEPT !.stage = "thrown"]
             ELSE [note EXCEPT !.stage = "formatting",
                               !.transcription = t.value]
  /\ UNCHANGED <<sessionVars, review, approval, dashVars>>

\* await formatMedicalNote(transcription) settled; the result is returned
NoteFormatted ==
  /\ note.stage = "formatting"
  /\ note' = [note EXCEPT
                !.stage = "returned",
                !.formattedNote =
                   FormatMedicalNote(note.transcription, note.formatKey,
                                     note.format)]
  /\ UNCHANGED <<sessionVars, review, approval, dashVars>>

NextNote ==
  \/ NoteTranscribed
  \/ NoteFormatted

SpecNote == InitNote /\ [][NextNote]_vars

\* ------------------------------------------- PatientService: consultations
\* a record rebuilt from the updates alone: what they do not name is empty
MergeOverwrites(c, u) ==
  [f \in DOMAIN c |->
     IF f \in DOMAIN u THEN u[f]
     ELSE IF f = "id" THEN c.id
     ELSE IF f \in {"audioUri", "duration"} THEN 0
     ELSE IF f \in {"startedAt", "completedAt"} THEN NoTime
     ELSE NoText]

\* { ...c, ...updates }
Merge(c, u) == [f \in DOMAIN c |-> IF f \in DOMAIN u THEN u[f] ELSE c[f]]

\* updateConsultation: the list it writes back
UpdateConsultation(list, id, u) ==
  [i \in 1..Len(list) |-> IF list[i].id = id THEN Merge(list[i], u)
                          ELSE list[i]]

\* getConsultationById: consultations.find(c => c.id === id) || null
Found(list, id) == \E i \in 1..Len(list) : list[i].id = id

GetConsultationById(list, id) ==
  list[CHOOSE i \in 1..Len(list) :
         list[i].id = id /\ \A j \in 1..(i - 1) : list[j].id # id]

\* ------------------------------------------------------------- ReviewScreen
\* the updates of the updateConsultation call in flight: those of
\* loadAndProcessConsultation, or those of handleSave
ReviewUpdates ==
  IF review.flow = "load"
  THEN [transcription |-> review.transcription,
        formattedNote |-> review.formattedNote, status |-> "completed"]
  ELSE [formattedNote |-> review.editedNote, completedAt |-> review.savedAt,
        status |-> "completed"]

ReviewFrame ==
  UNCHANGED <<platform, pressLimit, mounted, mountRuns, recording,
              isRecording, isPaused, startTime, metering, isMounted,
              isInitializing, dev, devq, storeq, now, presses, ticks, calls,
              hist, note, approval, dashVars>>

\* the review screen takes the place of the recording screen (router.replace
\* of stopRecording) or is opened from the dashboard later: the mount effect
\* runs loadAndProcessConsultation up to getConsultationById. The device
\* calls the recording screen left in flight touch nothing the review flow
\* reads or writes; they are taken to have settled.
ReviewOpen ==
  /\ ~mounted /\ Quiescent
  /\ review.stage = "closed"
  /\ \E i \in 1..Len(store) :
       review' = [ReviewClosed EXCEPT !.stage = "loading", !.flow = "load",
                                      !.id = store[i].id,
                                      !.isLoading = TRUE,
                                      !.appointment = review.appointment,
                                      !.workflow = review.workflow]
  /\ UNCHANGED <<store, faults>>
  /\ ReviewFrame

\* the review route is entered without a consultationId parameter:
\* loadAndProcessConsultation returns before its try block
ReviewOpenNoId ==
  /\ ~mounted /\ Quiescent
  /\ review.stage = "closed"
  /\ review' = [ReviewClosed EXCEPT !.stage = "ready", !.flow = "load",
                                    !.isLoading = TRUE,
                                    !.appointment = review.appointment,
                                    !.workflow = review.workflow]
  /\ UNCHANGED <<store, faults>>
  /\ ReviewFrame

\* catch + finally of loadAndProcessConsultation: toast, alert, isLoading false
ReviewLoadCatch ==
  [review EXCEPT !.stage = "ready", !.isLoading = FALSE,
                 !.isProcessing = FALSE]

\* getConsultationById settled (a storage failure is answered with null):
\* not found, or the stored note is used, or processAudioToMedicalNote starts
ReviewLoaded ==
  /\ review.stage = "loading"
  /\ \E ok \in Outcomes :
       /\ Spend(ok)
       /\ IF ~ok \/ ~Found(store, review.id)
          THEN review' = ReviewLoadCatch
          ELSE LET data == GetConsultationById(store, review.id) IN
               IF data.formattedNote # NoText
               THEN review' = [review EXCEPT
                                 !.stage = "ready", !.loaded = TRUE,
                                 !.isLoading = FALSE,
                                 !.editedNote = data.formattedNote]
               ELSE review' = [review EXCEPT !.stage = "transcribing",
                                             !.loaded = TRUE,
                                             !.isProcessing = TRUE]
  /\ UNCHANGED store
  /\ ReviewFrame

\* processAudioToMedicalNote settled: updateConsultation up to getItem
ReviewTranscribed ==
  /\ review.stage = "transcribing"
  /\ \E sk \in BOOLEAN, fk \in BOOLEAN, w \in Responses(Transcripts),
        f \in Responses(Notes) :
       LET r == ProcessAudioToMedicalNote(sk, fk, w, f) IN
       review' = IF r.thrown THEN ReviewLoadCatch
                 ELSE [review EXCEPT !.stage = "updGet",
                                     !.transcription = r.transcription,
                                     !.formattedNote = r.formattedNote]
  /\ UNCHANGED <<store, faults>>
  /\ ReviewFrame

\* the catch of handleSave without its finally block: isSaving stays set
ReviewSaveCatchNoFinally == [review EXCEPT !.stage = "ready"]

\* catch + finally of handleSave: alert, isSaving false
ReviewSaveCatch == [review EXCEPT !.stage = "ready", !.isSaving = FALSE]

\* updateConsultation: AsyncStorage.getItem settled
UpdateGetDone ==
  /\ review.stage = "updGet"
  /\ \E ok \in Outcomes :
       /\ Spend(ok)
       /\ review' = IF ok THEN [review EXCEPT !.stage = "updSet",
                                              !.snap = store]
                    ELSE IF review.flow = "load" THEN ReviewLoadCatch
                    ELSE ReviewSaveCatch
  /\ UNCHANGED store
  /\ ReviewFrame

\* updateConsultation: AsyncStorage.setItem settled; loadAndProcessConsultation
\* then shows the note, handleSave goes on to updateAppointmentStatus when the
\* consultation has an appointment, else to startConsultationWorkflow
UpdateSetDone ==
  /\ review.stage = "updSet"
  /\ \E ok \in Outcomes, hasAppointment \in BOOLEAN :
       /\ Spend(ok)
       /\ (~ok \/ review.flow = "load") => hasAppointment
       /\ IF ok
          THEN /\ store' = UpdateConsultation(review.snap, review.id,
                                              ReviewUpdates)
               /\ review' =
                    IF review.flow = "load"
                    THEN [review EXCEPT !.stage = "ready", !.snap = <<>>,
                                        !.isLoading = FALSE,
                                        !.isProcessing = FALSE,
                                        !.editedNote = review.formattedNote]
                    ELSE [review EXCEPT
                            !.snap = <<>>,
                            !.stage = IF hasAppointment THEN "appointment"
                                      ELSE "workflow"]
          ELSE /\ UNCHANGED store
               /\ review' = [(IF review.flow = "load" THEN ReviewLoadCatch
                              ELSE ReviewSaveCatch) EXCEPT !.snap = <<>>]
  /\ ReviewFrame

\* Approve & Save with the note as edited: handleSave up to the getItem of
\* updateConsultation. The button is rendered once isLoading is false and is
\* disabled while isSaving; after a save it is enabled again until the
\* dashboard replaces the screen
HandleSave ==
  /\ review.stage \in {"ready", "saved"} /\ review.loaded /\ ~review.left
  /\ ~review.isLoading /\ ~review.isSaving
  /\ presses < pressLimit
  /\ presses' = presses + 1
  /\ \E text \in Notes \cup {NoText, review.editedNote} :
       review' = [review EXCEPT !.stage = "updGet", !.flow = "save",
                                !.isSaving = TRUE,
                                !.editedNote = text, !.savedAt = now]
  /\ UNCHANGED <<platform, pressLimit, mounted, mountRuns, recording,
                 isRecording, isPaused, startTime, metering, isMounted,
                 isInitializing, dev, devq, storeq, store, now, faults, ticks,
                 calls, hist, note, approval, dashVars>>

\* updateAppointmentStatus settled
AppointmentDone ==
  /\ review.stage = "appointment"
  /\ \E ok \in Outcomes :
       /\ Spend(ok)
       /\ review' = IF ok THEN [review EXCEPT !.stage = "workflow",
                                              !.appointment = "completed"]
                    ELSE ReviewSaveCatch
  /\ UNCHANGED store
  /\ ReviewFrame

\* startConsultationWorkflow settled: its failure is reported and does not
\* fail the save; the dashboard replaces the screen 1.5 s later
WorkflowDone ==
  /\ review.stage = "workflow"
  /\ \E ok \in Outcomes :
       /\ Spend(ok)
       /\ review' = [review EXCEPT
                       !.stage = "saved",
                       !.isSaving = FALSE,
                       !.workflow = IF ok THEN "started" ELSE "failed"]
  /\ UNCHANGED store
  /\ ReviewFrame

\* the screen is left with nothing in flight: Discard, the hardware back
\* button, or the router.replace that follows a save
ReviewClose ==
  /\ review.stage \in {"ready", "saved"}
  /\ review' = [review EXCEPT !.stage = "closed", !.left = FALSE,
                               !.isLoading = FALSE]
  /\ UNCHANGED <<store, faults>>
  /\ ReviewFrame

\* the operations of the recording session that decide what reaches the
\* store (start, stop, save, unmount, the clock), and the review of what was
\* stored
NextFlow ==
  \/ MountEffect
  \/ StartPermDone
  \/ StartModeDone
  \/ StartCreateDone
  \/ PressStop
  \/ StopUnloadDone
  \/ SaveGetDone
  \/ SaveSetDone
  \/ Unmount
  \/ CleanupUnloadDone
  \/ ClockTick
  \/ ReviewOpen
  \/ ReviewOpenNoId
  \/ ReviewLoaded
  \/ ReviewTranscribed
  \/ UpdateGetDone
  \/ UpdateSetDone
  \/ HandleSave
  \/ AppointmentDone
  \/ WorkflowDone
  \/ ReviewClose

SpecFlow == Init /\ [][NextFlow]_vars

\* ------------------------------------------- a second recording session
\* the review screen (a modal) is dismissed while loadAndProcessConsultation
\* is in flight: the function runs on, its state updates go nowhere
ReviewLeave ==
  /\ review.flow = "load"
  /\ review.stage \in {"loading", "transcribing", "updGet", "updSet"}
  /\ ~review.left
  /\ review' = [review EXCEPT !.left = TRUE]
  /\ UNCHANGED <<store, faults>>
  /\ ReviewFrame

\* Start Consultation on the patient screen, some time after the last
\* recording screen has gone: a new RecordingScreen is pushed, its hook
\* state is the initial one
OpenRecording ==
  /\ ~mounted /\ mountRuns >= 1 /\ Quiescent
  /\ review.stage = "closed" \/ review.left
  /\ presses < pressLimit
  /\ \E h \in Handles : dev[h] = "none"
  /\ presses' = presses + 1
  /\ \E d \in ClockSteps : now' = now + d
  /\ mounted' = TRUE
  /\ mountRuns' = 0
  /\ recording' = NoHandle
  /\ isRecording' = FALSE
  /\ isPaused' = FALSE
  /\ startTime' = NoTime
  /\ metering' = SilenceFloor
  /\ isMounted' = TRUE
  /\ isInitializing' = FALSE
  /\ UNCHANGED <<platform, pressLimit, dev, devq, storeq, store, faults,
                 ticks, calls, hist, flowVars>>

\* sessions of one press (stop), with the press that opens the next one
InitRace ==
  /\ InitSession
  /\ pressLimit = MaxPresses + 1
  /\ InitFlowIdle

\* one recording after the other: start, stop, save, unmount
NextTwo ==
  \/ MountEffect
  \/ StartPermDone
  \/ StartModeDone
  \/ StartCreateDone
  \/ PressStop
  \/ StopUnloadDone
  \/ SaveGetDone
  \/ SaveSetDone
  \/ Unmount
  \/ CleanupUnloadDone
  \/ OpenRecording

SpecTwo == InitRace /\ [][NextTwo]_vars

\* the same, with the review screen loading and transcribing what was
\* recorded
NextRace ==
  \/ NextTwo
  \/ ReviewOpen
  \/ ReviewLoaded
  \/ ReviewTranscribed
  \/ UpdateGetDone
  \/ UpdateSetDone
  \/ ReviewClose
  \/ ReviewLeave

SpecRace == InitRace /\ [][NextRace]_vars

\* ------------------------------------- dashboard: initializeDemoData
DashFrame ==
  UNCHANGED <<platform, pressLimit, mounted, mountRuns, recording,
              isRecording, isPaused, startTime, metering, isMounted,
              isInitializing, dev, devq, storeq, now, presses, ticks, calls,
              hist, note, approval>>

\* the dashboard gains focus (it is the screen on top once the recording and
\* the review screen are gone): loadAppointments runs initializeDemoData up
\* to the getItem of getTodaysAppointments
DashboardFocus ==
  /\ ~mounted /\ Quiescent
  /\ review.stage = "closed"
  /\ demo = "idle"
  /\ demo' = "get"
  /\ UNCHANGED <<appointments, review, store, faults>>
  /\ DashFrame

\* the setItem that follows the one that resolved: patients, appointments,
\* consultations
DemoNext == IF demo = "patients" THEN "appointments" ELSE "consultations"

\* getTodaysAppointments settled; a read failure is answered with [], so
\* the demo data is written unless an appointment of today was read
DemoGetDone ==
  /\ demo = "get"
  /\ \E ok \in Outcomes :
       /\ Spend(ok)
       /\ demo' = IF ok /\ appointments = "today" THEN "idle"
                  ELSE "patients"
  /\ UNCHANGED <<appointments, review, store>>
  /\ DashFrame

\* setItem(PATIENTS_KEY) or setItem(APPOINTMENTS_KEY) settled; a failure is
\* caught and logged and ends initializeDemoData. The new appointments are
\* today's and pending
DemoSetDone ==
  /\ demo \in {"patients", "appointments"}
  /\ \E ok \in Outcomes :
       /\ Spend(ok)
       /\ demo' = IF ok THEN DemoNext ELSE "idle"
       /\ IF ok /\ demo = "appointments"
          THEN /\ appointments' = "today"
               /\ review' = [review EXCEPT !.appointment = "pending"]
          ELSE UNCHANGED <<appointments, review>>
  /\ UNCHANGED store
  /\ DashFrame

\* setItem(CONSULTATIONS_KEY, '[]') settled
DemoConsultationsDone ==
  /\ demo = "consultations"
  /\ demo' = "idle"
  /\ \E ok \in Outcomes :
       /\ Spend(ok)
       /\ store' = IF ok THEN <<>> ELSE store
  /\ UNCHANGED <<appointments, review>>
  /\ DashFrame

\* midnight: the stored appointments are no longer today's
DayPasses ==
  /\ appointments = "today"
  /\ appointments' = "earlier"
  /\ UNCHANGED <<demo, review, store, faults>>
  /\ DashFrame

\* recording, review and the dashboard that is shown in between
NextDash ==
  \/ NextFlow
  \/ DashboardFocus
  \/ DemoGetDone
  \/ DemoSetDone
  \/ DemoConsultationsDone
  \/ DayPasses

SpecDash == Init /\ [][NextDash]_vars

\* --------------------------------------- WorkflowApprovalScreen: reject path
TrimStart(str) ==
  LET RECURSIVE drop(_)
      drop(t) == IF t # <<>> /\ Head(t) = " " THEN drop(Tail(t)) ELSE t
  IN drop(str)

TrimEnd(str) ==
  LET RECURSIVE drop(_)
      drop(t) == IF t # <<>> /\ t[Len(t)] = " "
                 THEN drop(SubSeq(t, 1, Len(t) - 1)) ELSE t
  IN drop(str)

\* String.prototype.trim
Trim(str) == TrimEnd(TrimStart(str))

\* the guard of rejectWorkflow testing only for the empty string
NotesMissingNoTrim(notes) == notes = <<>>

\* rejectWorkflow: !notes || notes.trim().length === 0
NotesMissing(notes) == notes = <<>> \/ Len(Trim(notes)) = 0

\* executeRejection up to the await inside rejectWorkflow, or, when
\* rejectWorkflow throws at once, to its end
ExecuteRejection(notes) ==
  IF NotesMissing(notes)
  THEN approval' = [approval EXCEPT !.given = TRUE, !.answer = notes,
                                    !.alerts = @ + 1, !.toasts = @ + 1]
  ELSE approval' = [approval EXCEPT !.given = TRUE, !.answer = notes,
                                    !.isRejecting = TRUE,
                                    !.inflight = Append(@, notes),
                                    !.sent = Append(@, notes)]

\* the reject button: the prompt is answered with a text, or dismissed
HandleReject ==
  /\ ~approval.isRejecting /\ presses < pressLimit
  /\ presses' = presses + 1
  /\ \E given \in BOOLEAN, text \in PromptTexts :
       /\ ~given => text = <<>>
       /\ IF platform = "web"
          THEN IF given /\ text # <<>>
               THEN ExecuteRejection(text)
               ELSE approval' = [approval EXCEPT !.given = given,
                                                 !.answer = text]
          ELSE IF ~given
               THEN approval' = [approval EXCEPT !.given = given,
                                                 !.answer = text]
               ELSE IF Trim(text) # <<>>
                    THEN ExecuteRejection(text)
                    ELSE approval' = [approval EXCEPT !.given = given,
                                                      !.answer = text,
                                                      !.alerts = @ + 1]
  /\ UNCHANGED <<platform, pressLimit, mounted, mountRuns, recording,
                 isRecording, isPaused, startTime, metering, isMounted,
                 isInitializing, dev, devq, storeq, store, now, faults, ticks,
                 calls, hist, review, note, dashVars>>

\* the fetch of rejectWorkflow settled: toast on success, toast and alert on
\* a failure; finally setIsRejecting(false)
RejectFetchDone ==
  /\ approval.inflight # <<>>
  /\ \E ok \in Outcomes :
       /\ Spend(ok)
       /\ approval' = [approval EXCEPT
                         !.inflight = Tail(@),
                         !.isRejecting = FALSE,
                         !.toasts = @ + 1,
                         !.alerts = IF ok THEN @ ELSE @ + 1]
  /\ UNCHANGED <<platform, pressLimit, mounted, mountRuns, recording,
                 isRecording, isPaused, startTime, metering, isMounted,
                 isInitializing, dev, devq, storeq, store, now, presses,
                 ticks, calls, hist, review, note, dashVars>>

NextReject ==
  \/ HandleReject
  \/ RejectFetchDone

SpecReject == Init /\ [][NextReject]_vars

\* ==================================================================== claims
\* every stop request that held a recording has settled
StopSettled ==
  calls["stop"] >= 1 /\ ~InFlight({"unloadStop"}) /\ storeq = {}

\* C1: once every stop request of the session has settled, exactly one of two
\* outcomes has happened: exactly one Consultation is saved, with duration =
\* floor((stop time - startedAt) / 1 s), and no stop failed; or a stop failed
\* and zero Consultations are saved.
C1_StopOneOutcome ==
  StopSettled =>
    \/ /\ Len(store) = 1
       /\ store[1].duration = (store[1].id - startTime) \div MsPerSecond
       /\ calls["stopCatch"] = 0
    \/ /\ calls["stopCatch"] >= 1
       /\ Len(store) = 0

\* C2: once a confirmed cancel issued from Initializing, Recording or Paused
\* has completed and nothing is in flight, no recorder is live and no
\* Consultation has been written.
C2_CancelReleases ==
  (/\ hist.cancelPrior \in {"Initializing", "Recording", "Paused"}
   /\ calls["onCancel"] >= 1
   /\ Quiescent)
    => LiveHandles = {} /\ store = <<>>

\* C3: of two stop requests on the same session the second is a no-op: the
\* device is asked to stop once, and with no collaborator failure exactly one
\* Consultation is persisted, no error is raised and one navigation happens.
C3_SecondStopNoop ==
  calls["stop"] >= 2 =>
    /\ calls["unloadStop"] = 1
    /\ (StopSettled /\ faults = 0) =>
          /\ Len(store) = 1
          /\ calls["stopCatch"] = 0
          /\ calls["replace"] = 1

\* C4: no sampled or synthesized level is ever delivered to metering after
\* the session has left Recording.
C4_NoLateSample == ~hist.lateSample

\* C5: when a stop and a cancel have both been requested, the recorder is
\* released by one of them only, and a session whose cancel completed has no
\* Consultation persisted.
C5_StopCancelRace ==
  (hist.stopRequested /\ hist.cancelRequested) =>
    /\ calls["unloadStop"] + calls["unloadCancel"] <= 1
    /\ ~(calls["onCancel"] >= 1 /\ Len(store) >= 1)

\* C6: a pause requested while the session is already (being) paused, or a
\* resume while it is already (being) resumed, makes no device call; and when
\* no pause/resume is in flight, in a live session without failures, the
\* session is Paused exactly if the last request was a pause.
C6_PauseResumeLast ==
  /\ hist.redundantDev = 0
  /\ (/\ hist.lastReq # "none"
      /\ ~InFlight({"pause", "resume"})
      /\ faults = 0
      /\ mounted /\ Live(recording))
       => (isPaused = (hist.lastReq = "pause"))

\* C7: after microphone permission was denied the session is not recording
\* and (while the screen lives) not initializing, no recorder was ever
\* requested or acquired, and exactly one failure notification was raised.
C7_PermissionDenied ==
  hist.denied =>
    /\ ~isRecording
    /\ (mounted => ~isInitializing)
    /\ calls["create"] = 0
    /\ \A h \in Handles : dev[h] = "none"
    /\ calls["alert"] = 1

C7_Witness ==
  hist.denied /\ mounted /\ ~isInitializing /\ calls["alert"] = 1
  /\ calls["back"] = 1

\* C8: at every moment at most one recorder is live, and a start invoked
\* while another start is in flight is a no-op: it never asks the device for
\* a recorder.
C8_OneLiveHandle ==
  /\ Cardinality(LiveHandles) <= 1
  /\ hist.dupCreates = 0

\* C9: once the screen has unmounted and nothing is in flight, no recorder
\* is live.
C9_UnmountReleases ==
  (~mounted /\ Quiescent) => LiveHandles = {}

\* C10: after a device-layer error in start, pause, resume or stop, exactly
\* one failure notification has been raised, no later pause/resume/stop has
\* been issued to the device, and once nothing is in flight the recorder is
\* released.
C10_DeviceErrorTerminal ==
  hist.devErr =>
    /\ calls["alert"] = 1
    /\ hist.opsAfterErr = 0
    /\ Quiescent => LiveHandles = {}

\* C11: the saved duration is the wall-clock time from startedAt to the stop,
\* in whole seconds, whatever was paused in between: a session started at 0,
\* paused at 5 s, resumed at 20 s and stopped at 30 s is saved with
\* duration 30.
C11_WallClockDuration ==
  \A i \in 1..Len(store) :
    /\ store[i].duration = (hist.stoppedAt - startTime) \div MsPerSecond
    /\ (/\ startTime = 0
        /\ hist.pausedAt = 5000
        /\ hist.resumedAt = 20000
        /\ hist.stoppedAt = 30000) => store[i].duration = 30

C11_Witness ==
  /\ Len(store) = 1
  /\ startTime = 0
  /\ hist.pausedAt = 5000
  /\ hist.resumedAt = 20000
  /\ hist.stoppedAt = 30000
  /\ store[1].duration = 30

\* C12: after the device stop succeeded and the store write failed, the
\* failure has been raised, the session still holds the recording whose URI
\* was obtained, and a stop requested again goes to the store without a
\* further device call: once it has settled without another failure the
\* Consultation is saved.
C12_SaveFailureRetry ==
  hist.saveFailed =>
    /\ calls["alert"] >= 1
    /\ (mounted => recording # NoHandle)
    /\ hist.devAfterSaveFail = 0
    /\ (calls["stop"] >= 2 /\ StopSettled /\ faults <= 1) => Len(store) = 1

\* C13: after setAudioModeAsync or Recording.createAsync failed during start
\* the session is failed for good: it holds no recorder and none is live, it
\* is not recording and (while the screen lives) not initializing, no device
\* call is in flight or issued later, and the failure was notified exactly
\* once.
C13_AcquisitionFailure ==
  hist.acqFailed =>
    /\ recording = NoHandle
    /\ LiveHandles = {}
    /\ ~isRecording
    /\ (mounted => ~isInitializing)
    /\ devq = <<>>
    /\ calls["alert"] = 1
    /\ calls["onError"] = 1

C13_Witness ==
  /\ hist.acqFailed
  /\ calls["create"] = 1
  /\ mounted /\ ~isInitializing
  /\ presses >= 1
  /\ calls["alert"] = 1

\* C14: onSuccess and the navigation to the review screen have happened
\* exactly once per Consultation written to the store, so never before the
\* write completed and never for a write that failed; and the session has
\* started no transcription run.
C14_HandoffAfterSave ==
  /\ calls["onSuccess"] = Len(store)
  /\ calls["replace"] = Len(store)
  /\ (storeq # {} /\ store = <<>>) => calls["onSuccess"] = 0
  /\ note = NoteIdle

C14_Witness ==
  /\ Len(store) = 1
  /\ storeq = {}
  /\ calls["save"] = 1
  /\ calls["onSuccess"] = 1
  /\ calls["replace"] = 1

\* C18: a level the device reported while recording, the silence floor -160
\* included, is the level handed to setMetering, unchanged; a simulated
\* level is handed over only when the recorder reported none, which is the
\* web recorder.
C18_ReportedLevelDelivered ==
  /\ ~hist.misdelivered
  /\ (platform = "native" /\ metering # SilenceFloor)
       => metering \in ReportedLevels \ {Undef}

C18_Witness ==
  /\ platform = "native"
  /\ ticks >= 1
  /\ hist.floorDelivered
  /\ metering = SilenceFloor
  /\ mounted /\ isRecording /\ ~isPaused

\* C19: the sampling interval is gone once the session has left Recording
\* through a stop, so it never exists for a recorder that stopAndUnloadAsync
\* has released: no tick can call getStatusAsync on an unloaded recording.
C19_NoPollAfterRelease ==
  IntervalActive => dev[recording] # "unloaded"

\* C20: whenever the session is Paused and no pause or resume call is in
\* flight, metering is the silence floor -160.
C20_PausedSilence ==
  (mounted /\ isPaused /\ ~InFlight({"pause", "resume"}))
    => metering = SilenceFloor

\* C16: formatMedicalNote never throws and answers every failure of its
\* backend (no API key, fetch rejected, response not OK, body not parsed)
\* with its input, so processAudioToMedicalNote then returns formattedNote =
\* transcription; processAudioToMedicalNote throws exactly when the
\* transcription fails.
C16_FormatFallback ==
  LET formatFails == ~note.formatKey \/ note.format.kind \in Failures
      whisperFails == ~note.speechKey \/ note.whisper.kind \in Failures
  IN /\ (note.stage = "returned" /\ formatFails)
          => note.formattedNote = note.transcription
     /\ note.stage = "thrown" => whisperFails
     /\ (whisperFails /\ note.stage # "transcribing")
          => note.stage = "thrown"

C16_Witness ==
  /\ note.stage = "returned"
  /\ note.formatKey /\ note.format.kind = "notOk"
  /\ note.transcription = "raw"
  /\ note.formattedNote = "raw"

\* C17: no reject request is ever sent with empty or whitespace-only notes,
\* on the web prompt and on the native prompt alike: rejectWorkflow throws
\* before its fetch.
C17_RejectNeedsNotes ==
  \A i \in 1..Len(approval.sent) :
    /\ approval.sent[i] # <<>>
    /\ \E j \in 1..Len(approval.sent[i]) : approval.sent[i][j] # " "

C17_Witness ==
  /\ platform = "web"
  /\ approval.given /\ approval.answer = <<" ", " ">>
  /\ approval.sent = <<>>
  /\ ~approval.isRejecting
  /\ approval.alerts = 1

\* C15: every Consultation in the store has duration >= 0, and every one
\* whose status is processing, completed or draft has a non-empty audioUri,
\* whatever the recording session and the review flow have done.
C15_StoredRecordsValid ==
  \A i \in 1..Len(store) :
    /\ store[i].duration >= 0
    /\ store[i].status \in {"processing", "completed", "draft"}
         => store[i].audioUri \in Handles

C15_Witness ==
  /\ Len(store) = 1
  /\ store[1].status = "completed"
  /\ store[1].completedAt # NoTime
  /\ store[1].transcription = "raw"
  /\ store[1].formattedNote = "note"
  /\ store[1].duration = 1
  /\ store[1].audioUri \in Handles

\* the stop requests whose device call has settled
StopsSettledAtDevice ==
  calls["unloadStop"]
    - Cardinality({i \in 1..Len(devq) : devq[i].op = "unloadStop"})

\* C21: a stop whose device call threw, or that released the recorder and got
\* no URI, never calls saveConsultation, hands nothing over (no onSuccess, no
\* navigation to the review screen) and is notified (alert and onError); so
\* in a session with one stop request such a stop leaves the store empty.
C21_FailedStopPersistsNothing ==
  /\ calls["save"] + hist.stopsFailed = StopsSettledAtDevice
  /\ calls["onSuccess"] + hist.stopsFailed <= StopsSettledAtDevice
  /\ calls["replace"] + hist.stopsFailed <= StopsSettledAtDevice
  /\ calls["stopCatch"] >= hist.stopsFailed
  /\ calls["alert"] >= hist.stopsFailed
  /\ calls["onError"] >= hist.stopsFailed
  /\ (hist.stopsFailed >= 1 /\ calls["stop"] = 1)
       => /\ store = <<>> /\ storeq = {}
          /\ calls["save"] = 0
          /\ calls["onSuccess"] = 0
          /\ calls["replace"] = 0

C21_Witness ==
  /\ hist.stopsFailed = 1
  /\ calls["stop"] = 1
  /\ ~hist.devErr
  /\ recording # NoHandle /\ dev[recording] = "unloaded"
  /\ calls["stopCatch"] = 1 /\ calls["alert"] = 1 /\ calls["onError"] = 1
  /\ store = <<>>

\* C22: startTime is null until createAsync has succeeded and stays null
\* after a denied permission or a failed acquisition; it is set at the moment
\* the recorder is acquired and recording, to the clock's reading; once set
\* no later step (pause, resume, stop, cancel, ticks, unmount) changes it.
C22_StartedAtSetOnce ==
  /\ [](/\ startTime # NoTime
            => /\ recording # NoHandle /\ dev[recording] # "none"
               /\ isRecording
               /\ calls["create"] >= 1
               /\ startTime <= now
        /\ (hist.denied \/ hist.acqFailed) => startTime = NoTime)
  /\ [][/\ startTime # NoTime => startTime' = startTime
        /\ (startTime = NoTime /\ startTime' # NoTime)
             => /\ startTime' = now
                /\ recording = NoHandle /\ recording' # NoHandle
                /\ dev'[recording'] = "recording"]_vars

C22_Witness ==
  /\ startTime = 0 /\ now = MsPerSecond
  /\ hist.pausedAt # NoTime /\ hist.resumedAt = MsPerSecond
  /\ mounted /\ isRecording /\ ~isPaused

\* C23: every collaborator failure of the session (a rejected device or store
\* call, a stop without URI) is caught by the operation it occurred in and
\* has raised exactly one notification, alert and onError: the notifications
\* raised are as many as the failures that occurred, plus the alert of a
\* denied permission.
C23_EveryFailureNotified ==
  LET failures == faults + hist.rejected
      denials == IF hist.denied THEN 1 ELSE 0
  IN /\ calls["alert"] = failures + denials
     /\ calls["onError"] = failures

\* the status of the records of a list that carry the id
StatusOf(list, id) == {list[i].status : i \in {j \in 1..Len(list) :
                                                list[j].id = id}}

\* C24: a record enters the store as 'processing' with no transcription, no
\* note and no completion time, and stays so as long as it is processing;
\* its status becomes 'completed' only in the write of an updateConsultation
\* of the review screen for that record; a failed transcription leaves the
\* store as it was; a completed record never becomes processing again.
C24_StatusLifecycle ==
  /\ [](\A i \in 1..Len(store) :
          /\ store[i].status \in {"processing", "completed"}
          /\ store[i].status = "processing"
               => /\ store[i].transcription = NoText
                  /\ store[i].formattedNote = NoText
                  /\ store[i].completedAt = NoTime)
  /\ [][/\ \A i \in 1..Len(store) :
             /\ store[i].status = "completed"
                  => "processing" \notin StatusOf(store', store[i].id)
             /\ (/\ store[i].status = "processing"
                 /\ "completed" \in StatusOf(store', store[i].id))
                  => review.stage = "updSet" /\ review.id = store[i].id
        /\ \A i \in 1..Len(store') :
             ~Found(store, store'[i].id)
               => store'[i].status = "processing"
        /\ (review.stage = "transcribing" /\ review'.stage = "ready")
             => store' = store]_vars

\* C25: the store is append-only for consultations: no step of the recording
\* session, of the review screen or of the dashboard (initializeDemoData on
\* every focus, on the same day and on later days) removes a stored record
\* or changes its id, audioUri or duration, so getConsultationById keeps
\* finding it.
C25_AppendOnly ==
  [][\A i \in 1..Len(store) :
       /\ Found(store', store[i].id)
       /\ GetConsultationById(store', store[i].id).audioUri
            = store[i].audioUri
       /\ GetConsultationById(store', store[i].id).duration
            = store[i].duration]_vars

\* C26: overlapping saveConsultation and updateConsultation calls lose
\* nothing: every write of the list keeps each record the store holds at
\* that moment, as it is or with the update being written, and once no
\* store call is in flight the list holds one record per save that
\* succeeded.
C26_NoLostUpdate ==
  /\ []((storeq = {} /\ review.stage \notin {"updGet", "updSet"})
          => Len(store) = calls["onSuccess"])
  /\ [][\A i \in 1..Len(store) :
          \E j \in 1..Len(store') :
            \/ store'[j] = store[i]
            \/ /\ review.stage = "updSet" /\ review.id = store[i].id
               /\ store'[j] = Merge(store[i], ReviewUpdates)]_vars

\* C27: no two records of the store share an id, so getConsultationById and
\* updateConsultation address exactly one record for every stored id.
C27_UniqueIds ==
  \A i \in 1..Len(store) :
    Cardinality({j \in 1..Len(store) : store[j].id = store[i].id}) = 1

C27_Witness ==
  /\ Len(store) = 2
  /\ store[1].id # store[2].id
  /\ store[1].audioUri # store[2].audioUri
  /\ storeq = {}

\* the note of the Approve & Save in progress is in the list
NoteStored(list) ==
  /\ Found(list, review.id)
  /\ GetConsultationById(list, review.id).formattedNote = review.editedNote
  /\ GetConsultationById(list, review.id).completedAt = review.savedAt
  /\ GetConsultationById(list, review.id).status = "completed"

\* C28: handleSave stores the note first, then marks the appointment
\* completed, then starts the workflow: the appointment step is entered
\* only from a note write that succeeded, the workflow step only from an
\* appointment step that succeeded (or, without an appointment, from the
\* note write), and the workflow is started nowhere else; a failure of the
\* first two steps ends the save with the workflow untouched; a workflow
\* failure keeps the stored note and the completed appointment and still
\* leads to the dashboard; isSaving is set exactly while the save runs.
C28_SaveOrder ==
  /\ [](/\ review.isSaving
            <=> /\ review.flow = "save"
                /\ review.stage \in {"updGet", "updSet", "appointment",
                                      "workflow"}
        /\ (review.flow = "save" /\ review.stage \in {"appointment",
                                                       "workflow"})
             => NoteStored(store))
  /\ [][/\ (review'.stage = "appointment" /\ review.stage # "appointment")
             => /\ review.flow = "save" /\ review.stage = "updSet"
                /\ NoteStored(store')
        /\ (review'.stage = "workflow" /\ review.stage # "workflow")
             => \/ /\ review.stage = "appointment"
                   /\ review'.appointment = "completed"
                \/ /\ review.flow = "save" /\ review.stage = "updSet"
                   /\ NoteStored(store')
        /\ review'.workflow # review.workflow => review.stage = "workflow"
        /\ (/\ review.flow = "save"
            /\ review.stage \in {"updGet", "updSet", "appointment"}
            /\ review'.stage = "ready")
             => review'.workflow = review.workflow /\ ~review'.isSaving
        /\ (review.stage = "workflow" /\ review' # review)
             => /\ review'.stage = "saved"
                /\ store' = store
                /\ review'.appointment = review.appointment]_vars

C28_Witness ==
  /\ review.stage = "saved"
  /\ review.workflow = "failed"
  /\ review.appointment = "completed"
  /\ NoteStored(store)
  /\ ~review.isSaving

\* the record under review was saved by Approve & Save (handleSave alone
\* sets completedAt)
ReopenedAfterSave ==
  /\ review.flow = "load"
  /\ Found(store, review.id)
  /\ GetConsultationById(store, review.id).completedAt # NoTime

\* C29: when the review screen is opened again for a consultation that
\* Approve & Save has stored, whatever the note text, loading it shows the
\* stored note, never goes on to the transcription backend and leaves the
\* store as it is.
C29_SavedNoteKept ==
  [][ReopenedAfterSave
       => /\ review'.stage \notin {"transcribing", "updGet", "updSet"}
          /\ store' = store
          /\ (review.stage = "loading" /\ review'.loaded)
               => review'.editedNote
                    = GetConsultationById(store, review.id).formattedNote
      ]_vars

\* loadAndProcessConsultation has a call in flight
LoadInFlight ==
  /\ review.flow = "load"
  /\ review.stage \in {"loading", "transcribing", "updGet", "updSet"}

\* C30: whenever the review screen is open and loadAndProcessConsultation
\* has no call in flight (it has returned: id missing, consultation not
\* found, stored note used, transcription stored or failed), isLoading and
\* isProcessing are false.
C30_LoadingEnds ==
  (review.stage # "closed" /\ ~LoadInFlight)
    => ~review.isLoading /\ ~review.isProcessing

====
